---- MODULE Spec2Model ----
(***************************************************************************)
(* Model of build.py, the build orchestration script of TAK-Manager.       *)
(*                                                                         *)
(* The script is one sequential pipeline.  Its state is the file system it *)
(* works on, the position of the pipeline and the exit status of the       *)
(* process.  Every function of the script is an operator from a run record *)
(* (and the outcome of the external tools and file-system calls it makes)  *)
(* to the run record after it; the actions apply them.                     *)
(*                                                                         *)
(* Two runs are carried side by side: run, and twin, which starts from the *)
(* same file system except that the platform icon is present, and which is *)
(* fed the same outcomes.  The pair states the soft-failure claim.         *)
(***************************************************************************)
EXTENDS Integers, Sequences, FiniteSets, TLC

VARIABLES run, twin

vars == <<run, twin>>

-----------------------------------------------------------------------------
(* Bounds of the model *)

\* number of non-canonical *.spec files that may lie in the project root
MaxStraySpecs == 1
\* number of sub-directories of the project that may hold a __pycache__
MaxSubdirs == 1
\* number of times clean_build is run in succession in CleanSpec
MaxCleanRuns == 2

-----------------------------------------------------------------------------
(* Names *)

Platforms == {"darwin", "win32", "linux", "freebsd"}

\* build.py:77-81
required_files ==
  [darwin |-> "icon.icns", win32 |-> "icon.ico", linux |-> "icon.png"]

Icons == {"icon.icns", "icon.ico", "icon.png"}

CanonicalSpec == "tak-manager.spec"

StrayNames == <<"main.spec", "TAK Manager.spec", "build.spec">>
StraySpecs == {StrayNames[i] : i \in 1..MaxStraySpecs}

SubdirNames == <<"backend", "scripts", "tests">>
Subdirs == {SubdirNames[i] : i \in 1..MaxSubdirs}

\* the __pycache__ directories below the root: <<d>> stands for d/__pycache__
\* and <<d, "vendor">> for d/__pycache__/vendor/__pycache__ inside it
PycachePaths == {<<d>> : d \in Subdirs} \cup {<<d, "vendor">> : d \in Subdirs}

PycacheName(path) ==
  IF Len(path) = 1 THEN <<path[1], "__pycache__">>
  ELSE <<path[1], "__pycache__", path[2], "__pycache__">>

\* the paths that go when path is removed: itself and what lies inside it
Inside(path) == {q \in PycachePaths : q[1] = path[1] /\ Len(q) >= Len(path)}

DebugScript == "debug_launch.command"

\* the path the archive branch of build_app looks for (build.py:135,145,154)
AppName(platform) ==
  IF platform = "darwin" THEN "TAK Manager.app"
  ELSE IF platform = "win32" THEN "TAK Manager"
  ELSE "tak-manager"

\* the archive build_app writes into dist/ (build.py:139,149,157)
ArchiveName(platform) ==
  IF platform = "darwin" THEN "TAK-Manager-macOS.zip"
  ELSE IF platform = "win32" THEN "TAK-Manager-Windows.zip"
  ELSE "TAK-Manager-Linux.tar.gz"

\* npm.cmd on Windows, npm elsewhere (build.py:36)
npm_cmd(platform) == IF platform = "win32" THEN "npm.cmd" ELSE "npm"

Stages ==
  <<"Init", "Clean", "FrontendBuild", "ResourceCheck", "NativePackage",
    "DebugScriptEmit", "ArchiveCreate", "Done">>

\* outcome of launching an external tool with subprocess.run:
\* exit status 0, a non-zero exit status, or the tool could not be started
Outcomes == {"ok", "nonzero", "oserror"}

\* the exit status of the process: empty while it runs
Running == {}

NoArchive == [tool |-> "none", top |-> {}, fresh |-> FALSE]
StaleArchive == [tool |-> "previous", top |-> {}, fresh |-> FALSE]

-----------------------------------------------------------------------------
(* Helpers on run records *)

Log(r, level, msg) == [r EXCEPT !.log = Append(@, <<level, msg>>)]

Call(r, tool, out) == [r EXCEPT !.calls = Append(@, [tool |-> tool, out |-> out])]

\* an exception propagates out of the current function
Raise(r) == [r EXCEPT !.raised = TRUE]

\* sys.exit(1): SystemExit is no Exception, the handler of build_app lets it pass
sys_exit(r, status) == [r EXCEPT !.pc = "Failed", !.exit = {status}]

-----------------------------------------------------------------------------
(* setup_logging, build.py:10-26 *)

\* log_dir.mkdir(parents=True, exist_ok=True) and logging.FileHandler(log_file)
\* create the directory and the file; either call may raise (in.exc).
setup_logging(r, in) ==
  IF in.exc THEN Raise(r)
  ELSE [r EXCEPT !.logDir = TRUE, !.logFile = TRUE]

-----------------------------------------------------------------------------
(* clean_build, build.py:52-69 *)

\* rmtree called without the os.path.exists test: an absent target raises
Delete_unguarded(c, name, present, removed) ==
  IF c.err THEN c
  ELSE IF ~present \/ c.k = 1
  THEN [c EXCEPT !.r = Log(c.r, "info", <<"Cleaning">> \o name), !.err = TRUE]
  ELSE [r |-> [Log(removed, "info", <<"Cleaning">> \o name)
                 EXCEPT !.deleted = @ + 1],
        k |-> IF c.k = 0 THEN 0 ELSE c.k - 1,
        err |-> FALSE]

\* One deletion of clean_build (shutil.rmtree or Path.unlink).  c carries the
\* run record, the number k of deletions left before one raises (0: none
\* raises) and whether one has raised.  A target that is absent is skipped;
\* the deletion is logged before it is made; a deletion that raises leaves its
\* target and ends the function.
Delete(c, name, present, removed) ==
  IF c.err \/ ~present THEN c
  ELSE IF c.k = 1
  THEN [c EXCEPT !.r = Log(c.r, "info", <<"Cleaning">> \o name), !.err = TRUE]
  ELSE [r |-> [Log(removed, "info", <<"Cleaning">> \o name)
                 EXCEPT !.deleted = @ + 1],
        k |-> IF c.k = 0 THEN 0 ELSE c.k - 1,
        err |-> FALSE]

\* dirs_to_clean without 'dist'
clean_dirs_nodist(c0) ==
  LET c1 == Delete(c0, <<"build">>, c0.r.build, [c0.r EXCEPT !.build = FALSE])
      c3 == Delete(c1, <<"__pycache__">>, c1.r.pycache,
                   [c1.r EXCEPT !.pycache = FALSE])
  IN  c3

\* for dir_name in ['build', 'dist', '__pycache__']: if os.path.exists: rmtree
clean_dirs(c0) ==
  LET c1 == Delete(c0, <<"build">>, c0.r.build, [c0.r EXCEPT !.build = FALSE])
      c2 == Delete(c1, <<"dist">>, c1.r.dist,
                   [c1.r EXCEPT !.dist = FALSE, !.distEntries = {},
                                !.debugMode = 0, !.archive = NoArchive])
      c3 == Delete(c2, <<"__pycache__">>, c2.r.pycache,
                   [c2.r EXCEPT !.pycache = FALSE])
  IN  c3

\* for spec_file in Path('.').glob('*.spec'): unlink unless it is the canonical
RECURSIVE clean_specs(_, _)
clean_specs(c, todo) ==
  IF todo = {} THEN c
  ELSE LET f == CHOOSE x \in todo : TRUE
           c1 == IF f # CanonicalSpec
                 THEN Delete(c, <<f>>, f \in c.r.specs,
                             [c.r EXCEPT !.specs = @ \ {f}])
                 ELSE c
       IN  clean_specs(c1, todo \ {f})

\* for pycache_dir in Path('.').glob('**/__pycache__'): rmtree
\* The glob walks the tree while the loop runs, a directory before what is in
\* it, so a __pycache__ inside one already removed is no longer found.
RECURSIVE clean_pycache(_, _)
clean_pycache(c, todo) ==
  IF todo = {} THEN c
  ELSE LET d == CHOOSE x \in todo : \A y \in todo : Len(x) <= Len(y)
           c1 == Delete(c, PycacheName(d), d \in c.r.subPyc,
                        [c.r EXCEPT !.subPyc = @ \ Inside(d)])
       IN  clean_pycache(c1, todo \ {d})

clean_build(r, in) ==
  LET c0 == [r |-> [r EXCEPT !.deleted = 0, !.cleanRuns = @ + 1],
             k |-> in.failAt, err |-> FALSE]
      c1 == clean_dirs(c0)
      c2 == clean_specs(c1, c1.r.specs)
      c3 == clean_pycache(c2, c2.r.subPyc)
  IN  IF c3.err THEN Raise(c3.r) ELSE c3.r

-----------------------------------------------------------------------------
(* build_frontend, build.py:28-50 *)

\* subprocess.run([...], check=True): the call is made; a non-zero exit raises
\* CalledProcessError, a tool that cannot be started raises OSError.
\* The result is <<run record, "ok" | "called_process_error" | "os_error">>.
run_checked(r, tool, out) ==
  <<Call(r, tool, out),
    IF out = "ok" THEN "ok"
    ELSE IF out = "nonzero" THEN "called_process_error"
    ELSE "os_error">>

\* the handler of build_frontend logging the error without exiting
frontend_except_logonly(r, exc) ==
  IF exc = "called_process_error"
  THEN Log(r, "error", <<"Error building frontend">>)
  ELSE Raise(r)

\* except subprocess.CalledProcessError: log and sys.exit(1) (build.py:48-50);
\* any other exception leaves build_frontend and reaches build_app's handler.
frontend_except(r, exc) ==
  IF exc = "called_process_error"
  THEN sys_exit(Log(r, "error", <<"Error building frontend">>), 1)
  ELSE Raise(r)

\* the try block of build_frontend, build.py:37-47
npm_build(r, in) ==
  \* shutil.rmtree(web/dist) when it exists; it may raise (in.exc)
  IF r.webDist /\ in.exc
  THEN frontend_except(Log(r, "info", <<"Cleaning previous frontend build">>),
                       "os_error")
  ELSE
    LET r1 == IF r.webDist
              THEN [Log(r, "info", <<"Cleaning previous frontend build">>)
                      EXCEPT !.webDist = FALSE]
              ELSE r
        i  == run_checked(r1, <<npm_cmd(r.platform), "install">>, in.npmInstall)
    IN  IF i[2] # "ok" THEN frontend_except(i[1], i[2])
        ELSE
          LET b == run_checked(i[1], <<npm_cmd(r.platform), "run", "build">>,
                               in.npmBuild)
          IN  IF b[2] # "ok" THEN frontend_except(b[1], b[2])
              ELSE [b[1] EXCEPT !.webDist = TRUE]

\* build_frontend without the exit on a missing web/
build_frontend_unchecked(r, in) ==
  IF ~r.web
  THEN npm_build(Log(r, "error", <<"Web directory not found">>), in)
  ELSE npm_build(r, in)

build_frontend(r, in) ==
  IF ~r.web
  THEN sys_exit(Log(r, "error", <<"Web directory not found">>), 1)
  ELSE npm_build(r, in)

-----------------------------------------------------------------------------
(* ensure_resources, build.py:71-87 *)

\* a table whose rows for macOS and Windows are exchanged
platform_file_swapped(platform) ==
  IF platform = "darwin" THEN {"icon.ico"}
  ELSE IF platform = "win32" THEN {"icon.icns"}
  ELSE IF platform = "linux" THEN {"icon.png"}
  ELSE {}

\* required_files.get(sys.platform): None for a platform that is no key
platform_file(platform) ==
  IF platform \in DOMAIN required_files THEN {required_files[platform]} ELSE {}

\* a missing icon treated as fatal
missing_icon_fatal(r, f) ==
  sys_exit(Log(r, "error", <<f, "not found in resources directory">>), 1)

\* logging.warning(f"{platform_file} not found in resources directory")
missing_icon(r, f) ==
  Log(r, "warning", <<f, "not found in resources directory">>)

ensure_resources(r, in) ==
  \* resources_dir.mkdir(exist_ok=True) creates the directory when it is absent
  \* and may then raise (in.exc); an existing directory is left alone
  IF ~r.resources /\ in.exc THEN Raise(r)
  ELSE
    LET r1 == [r EXCEPT !.resources = TRUE]
        pf == platform_file(r.platform)
    IN  IF pf = {} THEN r1
        ELSE
          LET f  == CHOOSE x \in pf : TRUE
              r2 == [r1 EXCEPT !.checked = @ \cup {f}]
          IN  IF f \notin r2.icons THEN missing_icon(r2, f) ELSE r2

-----------------------------------------------------------------------------
(* create_debug_script, build.py:89-107 *)

\* the mode 0o755 the script is given (build.py:106)
ExecutableMode == 493

\* the script written but not made executable (0o644)
create_debug_script_nochmod(r, in) ==
  IF r.platform = "darwin"
  THEN
    IF ~r.dist \/ in.exc THEN Raise(r)
    ELSE [r EXCEPT !.distEntries = @ \cup {DebugScript},
                   !.debugMode = 420,
                   !.order = Append(@, DebugScript)]
  ELSE r

create_debug_script(r, in) ==
  IF r.platform = "darwin"
  THEN
    \* open(dist/debug_launch.command, "w") raises when dist/ is absent, and may
    \* raise for other reasons (in.exc)
    IF ~r.dist \/ in.exc THEN Raise(r)
    ELSE [r EXCEPT !.distEntries = @ \cup {DebugScript},
                   !.debugMode = ExecutableMode,
                   !.order = Append(@, DebugScript)]
  ELSE r

-----------------------------------------------------------------------------
(* The steps build_app makes itself, build.py:125-158 *)

\* PyInstaller run without check=True
run_pyinstaller_unchecked(r, in) ==
  LET r1 == Call(r, <<"pyinstaller", CanonicalSpec, "--clean">>, in.pyi)
  IN  IF in.pyi = "oserror" THEN Raise(r1)
      ELSE IF in.pyi = "nonzero" THEN [r1 EXCEPT !.build = TRUE]
      ELSE [r1 EXCEPT !.build = TRUE, !.dist = TRUE,
                      !.distEntries =
                         IF in.produces THEN {AppName(r.platform)} ELSE {}]

\* subprocess.run(['pyinstaller', 'tak-manager.spec', '--clean'], check=True).
\* PyInstaller cannot succeed without its spec file.  When it succeeds it has
\* written build/ and dist/, and dist/ holds the application when in.produces.
run_pyinstaller(r, in) ==
  LET out == IF CanonicalSpec \notin r.specs /\ in.pyi = "ok"
             THEN "nonzero" ELSE in.pyi
      p   == run_checked(r, <<"pyinstaller", CanonicalSpec, "--clean">>, out)
  IN  IF p[2] = "os_error" THEN Raise(p[1])
      ELSE IF p[2] = "called_process_error"
      THEN Raise([p[1] EXCEPT !.build = TRUE])
      ELSE [p[1] EXCEPT !.build = TRUE, !.dist = TRUE,
                        !.distEntries =
                           IF in.produces THEN {AppName(r.platform)} ELSE {}]

\* shutil.make_archive(dist/<name>, 'zip', root_dir, base_dir): the archive
\* holds base_dir below root_dir; it may raise (exc)
make_archive(r, exc, top) ==
  IF exc THEN Raise(r)
  ELSE [r EXCEPT !.distEntries = @ \cup {ArchiveName(r.platform)},
                 !.archive = [tool |-> "zip", top |-> top, fresh |-> TRUE],
                 !.order = Append(@, ArchiveName(r.platform))]

\* subprocess.run(['tar', 'czf', archive_name, '-C', 'dist', 'tak-manager'])
\* without check=True: the exit status of tar is not looked at
run_tar(r, out) ==
  LET r1 == Call(r, <<"tar", "czf", ArchiveName(r.platform), "-C", "dist",
                      "tak-manager">>, out)
  IN  IF out = "oserror" THEN Raise(r1)
      ELSE IF out = "nonzero" THEN r1
      ELSE [r1 EXCEPT !.distEntries = @ \cup {ArchiveName(r.platform)},
                      !.archive = [tool |-> "tar", top |-> {"tak-manager"},
                                   fresh |-> TRUE],
                      !.order = Append(@, ArchiveName(r.platform))]

\* the platform branch of build_app, build.py:132-158
create_archive(r, in) ==
  IF r.platform = "darwin"
  THEN IF "TAK Manager.app" \in r.distEntries
       THEN make_archive(r, in.exc, {"TAK Manager.app"})
       ELSE r
  ELSE IF r.platform = "win32"
  THEN IF "TAK Manager" \in r.distEntries
       THEN make_archive(r, in.exc, {"."})
       ELSE r
  ELSE IF "tak-manager" \in r.distEntries
       THEN run_tar(r, in.tar)
       ELSE r

-----------------------------------------------------------------------------
(* build_app, build.py:109-166 *)

\* except Exception as e: logging.error(..., exc_info=True); sys.exit(1)
except_handler(r) == sys_exit(Log(r, "error", <<"Error during build">>), 1)

\* a handler that logs the exception and goes on with the next statement
Continue_swallow(r, next) ==
  IF r.exit # Running THEN r
  ELSE [Log(r, "error", <<"Error during build">>)
          EXCEPT !.pc = next,
                 !.stages = Append(@, next),
                 !.exit = IF next = "Done" THEN {0} ELSE Running]

\* What follows a step of build_app that left the run record r: the handler
\* when the step raised, nothing when the step ended the process, and
\* otherwise the next statement; the process ends with status 0 when build_app
\* returns.
Continue(r, next) ==
  IF r.raised THEN except_handler(r)
  ELSE IF r.exit # Running THEN r
  ELSE [r EXCEPT !.pc = next,
                 !.stages = Append(@, next),
                 !.exit = IF next = "Done" THEN {0} ELSE Running]

\* One statement of the try block of build_app, chosen by the position r.pc.
build_app(r, in) ==
  IF r.pc = "Init" THEN Continue(setup_logging(r, in), "Clean")
  ELSE IF r.pc = "Clean" THEN Continue(clean_build(r, in), "FrontendBuild")
  ELSE IF r.pc = "FrontendBuild"
  THEN Continue(build_frontend(r, in), "ResourceCheck")
  ELSE IF r.pc = "ResourceCheck"
  THEN Continue(ensure_resources(r, in), "NativePackage")
  ELSE IF r.pc = "NativePackage"
  THEN Continue(run_pyinstaller(r, in), "DebugScriptEmit")
  ELSE IF r.pc = "DebugScriptEmit"
  THEN Continue(create_debug_script(r, in), "ArchiveCreate")
  ELSE IF r.pc = "ArchiveCreate" THEN Continue(create_archive(r, in), "Done")
  ELSE r

-----------------------------------------------------------------------------
(* Initial states: the file system the script is started on *)

\* dist/ as a previous run left it: absent, empty, or holding its outputs
PreviousDist(platform) ==
  {<<FALSE, {}>>, <<TRUE, {}>>,
   <<TRUE, {AppName(platform), ArchiveName(platform)}>>}

\* the __pycache__ directories below the root that may exist together
InitialPycache ==
  {p \in SUBSET PycachePaths :
     \A q \in p : Len(q) = 2 => <<q[1]>> \in p}

\* resources/: absent, or holding some of the icons
InitialResources == {<<FALSE, {}>>} \cup {<<TRUE, i>> : i \in SUBSET Icons}

\* web/ and web/dist
InitialWeb == {<<FALSE, FALSE>>, <<TRUE, FALSE>>, <<TRUE, TRUE>>}

\* the run that differs from r in nothing but the presence of the platform icon
WithIcon(r) ==
  IF r.resources THEN [r EXCEPT !.icons = @ \cup platform_file(r.platform)]
  ELSE r

Init ==
  \E platform \in Platforms, build \in BOOLEAN, pycache \in BOOLEAN,
     canonical \in SUBSET {CanonicalSpec},
     stray \in SUBSET StraySpecs, subPyc \in InitialPycache,
     web \in InitialWeb, res \in InitialResources :
    \E dist \in PreviousDist(platform) :
      /\ run = [pc |-> "Init", exit |-> Running, platform |-> platform,
                stages |-> <<"Init">>, calls |-> <<>>, log |-> <<>>,
                raised |-> FALSE, order |-> <<>>, checked |-> {},
                deleted |-> 0, cleanRuns |-> 0,
                logDir |-> FALSE, logFile |-> FALSE,
                build |-> build, pycache |-> pycache,
                dist |-> dist[1], distEntries |-> dist[2], debugMode |-> 0,
                archive |-> IF ArchiveName(platform) \in dist[2]
                            THEN StaleArchive ELSE NoArchive,
                specs |-> canonical \cup stray, subPyc |-> subPyc,
                web |-> web[1], webDist |-> web[2],
                resources |-> res[1], icons |-> res[2]]
      /\ twin = WithIcon(run)

-----------------------------------------------------------------------------
(* Actions: one per statement of build_app *)

\* the outcomes a step does not look at
NoInput ==
  [exc |-> FALSE, failAt |-> 0, npmInstall |-> "ok", npmBuild |-> "ok",
   pyi |-> "ok", produces |-> TRUE, tar |-> "ok"]

\* both runs take the step, on the same outcomes
Step(in) ==
  /\ run' = build_app(run, in)
  /\ twin' = build_app(twin, in)

\* the deletions of clean_build: three directories, the stray spec files and
\* the __pycache__ directories below the root
MaxDeletions == 3 + MaxStraySpecs + MaxSubdirs

SetupLogging ==
  /\ run.pc = "Init"
  /\ \E exc \in BOOLEAN : Step([NoInput EXCEPT !.exc = exc])

CleanBuild ==
  /\ run.pc = "Clean"
  /\ \E failAt \in 0..MaxDeletions : Step([NoInput EXCEPT !.failAt = failAt])

BuildFrontend ==
  /\ run.pc = "FrontendBuild"
  /\ \E exc \in BOOLEAN, i \in Outcomes, b \in Outcomes :
       Step([NoInput EXCEPT !.exc = exc, !.npmInstall = i, !.npmBuild = b])

EnsureResources ==
  /\ run.pc = "ResourceCheck"
  /\ \E exc \in BOOLEAN : Step([NoInput EXCEPT !.exc = exc])

RunPyInstaller ==
  /\ run.pc = "NativePackage"
  /\ \E out \in Outcomes, produces \in BOOLEAN :
       Step([NoInput EXCEPT !.pyi = out, !.produces = produces])

CreateDebugScript ==
  /\ run.pc = "DebugScriptEmit"
  /\ \E exc \in BOOLEAN : Step([NoInput EXCEPT !.exc = exc])

CreateArchive ==
  /\ run.pc = "ArchiveCreate"
  /\ \E exc \in BOOLEAN, out \in Outcomes :
       Step([NoInput EXCEPT !.exc = exc, !.tar = out])

Next ==
  \/ SetupLogging
  \/ CleanBuild
  \/ BuildFrontend
  \/ EnsureResources
  \/ RunPyInstaller
  \/ CreateDebugScript
  \/ CreateArchive

Spec == Init /\ [][Next]_vars

-----------------------------------------------------------------------------
(* clean_build run several times in succession, on every file system *)

CleanAgain ==
  /\ run.cleanRuns < MaxCleanRuns
  /\ \E failAt \in 0..MaxDeletions :
       run' = clean_build([run EXCEPT !.raised = FALSE],
                          [NoInput EXCEPT !.failAt = failAt])
  /\ twin' = twin

CleanNext == CleanAgain

\* the file systems that differ in what clean_build looks at
CleanInit ==
  /\ Init
  /\ run.web /\ ~run.webDist
  /\ run.resources /\ run.icons = Icons

CleanSpec == CleanInit /\ [][CleanNext]_vars

-----------------------------------------------------------------------------
(* Vocabulary of the claims *)

Terminal == {"Done", "Failed"}

\* build_frontend has run
FrontendRan(r) ==
  \E i \in 1..Len(r.stages) : r.stages[i] = "FrontendBuild" /\ r.pc # "FrontendBuild"

IsNpm(c) == c.tool[1] \in {"npm", "npm.cmd"}
IsNpmInstall(c) == IsNpm(c) /\ c.tool[2] = "install"
IsNpmBuild(c) == IsNpm(c) /\ c.tool[2] = "run"
IsPyInstaller(c) == c.tool[1] = "pyinstaller"
IsTar(c) == c.tool[1] = "tar"

\* the stage the run was in when it ended or is in now
LastStage(r) == r.stages[Len(r.stages)]

\* a hard failure has occurred: web/ missing when build_frontend ran, a
\* non-zero exit of npm or PyInstaller, or an exception in a step
HardFailure(r) ==
  \/ ~r.web /\ FrontendRan(r)
  \/ r.raised
  \/ \E i \in 1..Len(r.calls) :
        /\ IsNpm(r.calls[i]) \/ IsPyInstaller(r.calls[i])
        /\ r.calls[i].out = "nonzero"

-----------------------------------------------------------------------------
(* Claims *)

\* C1: when web/ does not exist, npm is never invoked, PyInstaller is never
\* invoked, and once build_frontend has run the process has exited with a
\* non-zero status.
C1_MissingWebHalts ==
  ~run.web =>
    /\ \A i \in 1..Len(run.calls) :
          ~IsNpm(run.calls[i]) /\ ~IsPyInstaller(run.calls[i])
    /\ FrontendRan(run) =>
          run.pc = "Failed" /\ run.exit # Running /\ 0 \notin run.exit

C1_Witness ==
  ~run.web /\ FrontendRan(run) /\ run.pc = "Failed" /\ run.cleanRuns = 1

\* C2: after a non-zero exit of npm install or npm run build the pipeline has
\* halted and nothing is invoked any more: PyInstaller never follows a failed
\* npm step and npm run build never follows a failed npm install.
C2_NpmFailureHalts ==
  \A i \in 1..Len(run.calls) :
    (IsNpm(run.calls[i]) /\ run.calls[i].out = "nonzero") =>
      /\ run.pc = "Failed"
      /\ \A j \in (i+1)..Len(run.calls) :
            /\ ~IsPyInstaller(run.calls[j])
            /\ IsNpmInstall(run.calls[i]) => ~IsNpmBuild(run.calls[j])

C2_Witness ==
  /\ Len(run.calls) = 2
  /\ IsNpmBuild(run.calls[2]) /\ run.calls[2].out = "nonzero"
  /\ run.pc = "Failed"

\* C3: the exit status is 1 exactly for the runs with a hard failure and 0
\* exactly for the runs that reach the end of build_app; there is no other.
C3_ExitStatus ==
  /\ run.exit \in {Running, {0}, {1}}
  /\ (run.exit # Running) <=> (run.pc \in Terminal)
  /\ HardFailure(run) => run.pc = "Failed" /\ run.exit = {1}
  /\ run.pc = "Failed" => HardFailure(run) /\ run.exit = {1}
  /\ run.pc = "Done" => ~HardFailure(run) /\ run.exit = {0}

C3_Witness ==
  /\ run.pc = "Failed"
  /\ run.exit = {1}
  /\ \E i \in 1..Len(run.calls) :
        IsPyInstaller(run.calls[i]) /\ run.calls[i].out = "nonzero"

\* C4: the run without the platform icon and the run with it, given the same
\* outcomes of every step, are at the same stage, have invoked the same tools,
\* have the same exit status and the same files apart from the icon; their
\* logs differ in warnings only.
NotWarning(e) == e[1] # "warning"

C4_MissingIconIsSoft ==
  /\ [run EXCEPT !.icons = twin.icons, !.log = twin.log] = twin
  /\ SelectSeq(run.log, NotWarning) = SelectSeq(twin.log, NotWarning)

C4_Witness ==
  /\ run.icons # twin.icons
  /\ run.pc = "Done"
  /\ \E i \in 1..Len(run.log) : run.log[i][1] = "warning"

\* C5: the stages entered are an initial part of Init, Clean, FrontendBuild,
\* ResourceCheck, NativePackage, DebugScriptEmit, ArchiveCreate, Done, each
\* entered once and in this order; a stage is left only for the next one or for
\* Failed, and for Failed whenever it failed; nothing happens after Done or
\* Failed.
C5_StagesInOrder ==
  /\ run.stages = SubSeq(Stages, 1, Len(run.stages))
  /\ run.pc \in {LastStage(run), "Failed"}
  /\ HardFailure(run) => run.pc = "Failed"

C5_StepsForward ==
  /\ run.pc \notin Terminal
  /\ run'.pc = "Failed" \/ run'.stages = Append(run.stages, run'.pc)
  /\ run'.pc = "Failed" => run'.stages = run.stages
  /\ \A i \in 1..Len(run.calls) : run'.calls[i] = run.calls[i]

\* C5: in every state the stages entered are in pipeline order, and every
\* step goes one stage forward or to Failed and starts from no terminal stage.
C5_LinearPipeline == [](C5_StagesInOrder) /\ [][C5_StepsForward]_vars

C5_Witness ==
  run.pc = "Done" /\ run.stages = Stages /\ Len(run.calls) >= 3

\* C6: every Linux run that reaches Done with dist/tak-manager present has
\* dist/TAK-Manager-Linux.tar.gz, made by tar from dist/ with tak-manager as its
\* top-level entry.
C6_LinuxArchive ==
  (run.platform = "linux" /\ run.pc = "Done" /\ "tak-manager" \in run.distEntries)
    => /\ "TAK-Manager-Linux.tar.gz" \in run.distEntries
       /\ run.archive = [tool |-> "tar", top |-> {"tak-manager"}, fresh |-> TRUE]

\* C7: every macOS run that ends its build with dist/TAK Manager.app present
\* has dist/TAK-Manager-macOS.zip holding that bundle and nothing else, and
\* dist/debug_launch.command with mode 0o755, written before the archive.
C7_MacArchive ==
  (run.platform = "darwin" /\ run.pc = "Done"
     /\ "TAK Manager.app" \in run.distEntries)
    => /\ "TAK-Manager-macOS.zip" \in run.distEntries
       /\ run.archive = [tool |-> "zip", top |-> {"TAK Manager.app"},
                         fresh |-> TRUE]
       /\ "debug_launch.command" \in run.distEntries
       /\ run.debugMode = ExecutableMode
       /\ run.order = <<"debug_launch.command", "TAK-Manager-macOS.zip">>

C7_Witness ==
  /\ run.platform = "darwin" /\ run.pc = "Done"
  /\ "TAK Manager.app" \in run.distEntries
  /\ "TAK-Manager-macOS.zip" \in run.distEntries

\* C8: after a run of clean_build that raised nothing, build/, dist/, the
\* top-level __pycache__/, every non-canonical *.spec file and every
\* __pycache__ below the root are gone; the run that follows deletes nothing,
\* raises nothing and changes no file; tak-manager.spec is never removed.
Cleaned(r) ==
  /\ ~r.build /\ ~r.dist /\ ~r.pycache
  /\ r.specs \subseteq {"tak-manager.spec"}
  /\ r.subPyc = {}

SameFiles(r, q) ==
  [r EXCEPT !.log = <<>>, !.cleanRuns = 0, !.deleted = 0, !.raised = FALSE]
    = [q EXCEPT !.log = <<>>, !.cleanRuns = 0, !.deleted = 0, !.raised = FALSE]

C8_SecondRunIdle ==
  (run.cleanRuns >= 1 /\ ~run.raised) =>
    /\ run'.deleted = 0
    /\ ~run'.raised
    /\ run'.log = run.log
    /\ SameFiles(run', run)

C8_KeepsCanonical ==
  "tak-manager.spec" \in run.specs => "tak-manager.spec" \in run'.specs

\* C8: clean_build is idempotent: a run that raised nothing leaves nothing to
\* clean, the run after it is idle, and the canonical spec file is kept.
C8_CleanIdempotent ==
  /\ []((run.cleanRuns >= 1 /\ ~run.raised) => Cleaned(run))
  /\ [][C8_SecondRunIdle]_vars
  /\ [][C8_KeepsCanonical]_vars

C8_Witness ==
  /\ run.cleanRuns = 2 /\ ~run.raised /\ run.deleted = 0
  /\ Len(run.log) = 3 + MaxStraySpecs + MaxSubdirs
  /\ "tak-manager.spec" \in run.specs

\* C9: on macOS, Windows and Linux ensure_resources looks for icon.icns,
\* icon.ico and icon.png respectively and for no other icon, warns about no
\* other file, creates resources/ when it is absent and changes nothing else
\* of the file system; no icon is created, changed or deleted.
ExpectedIcon(platform) ==
  IF platform = "darwin" THEN "icon.icns"
  ELSE IF platform = "win32" THEN "icon.ico"
  ELSE "icon.png"

C9_Step ==
  (run.pc = "ResourceCheck" /\ run.platform \in {"darwin", "win32", "linux"}) =>
    /\ run'.icons = run.icons
    /\ [run' EXCEPT !.resources = run.resources] = 
         [run EXCEPT !.pc = run'.pc, !.exit = run'.exit, !.stages = run'.stages,
                     !.log = run'.log, !.raised = run'.raised,
                     !.checked = run'.checked]
    /\ ~run'.raised =>
         /\ run'.resources
         /\ run'.checked = {ExpectedIcon(run.platform)}
         /\ run'.pc = "NativePackage"
         /\ run'.log =
              IF ExpectedIcon(run.platform) \in run.icons THEN run.log
              ELSE Append(run.log,
                          <<"warning", <<ExpectedIcon(run.platform),
                                         "not found in resources directory">>>>)
    /\ run'.raised => run'.checked = {} /\ ~run.resources

\* C9: every step of ensure_resources on macOS, Windows or Linux checks exactly
\* the icon of the platform and touches no file but resources/.
C9_ExactlyOneIcon == [][C9_Step]_vars

C9_Witness ==
  /\ run.pc = "NativePackage" /\ run.platform = "win32"
  /\ run.checked = {"icon.ico"}
  /\ run.icons = {"icon.icns", "icon.png"}

\* C10: from the end of clean_build until PyInstaller is invoked build/ and
\* dist/ do not exist, so a run that fails in build_frontend ends without the
\* dist/ and the archive of the previous run; and once npm install has been
\* invoked web/dist does not exist unless npm run build succeeded.
Uncleaned(r) == r.build \/ r.dist \/ r.distEntries # {} \/ r.archive # NoArchive

C10_CleanedBeforeValidation ==
  /\ ((\E i \in 1..Len(run.stages) : run.stages[i] = "FrontendBuild")
        /\ \A i \in 1..Len(run.calls) : ~IsPyInstaller(run.calls[i]))
       => ~Uncleaned(run)
  /\ ((\E i \in 1..Len(run.calls) : IsNpmInstall(run.calls[i]))
        /\ ~\E i \in 1..Len(run.calls) :
               IsNpmBuild(run.calls[i]) /\ run.calls[i].out = "ok")
       => ~run.webDist

C10_Witness ==
  /\ run.pc = "Failed" /\ LastStage(run) = "FrontendBuild"
  /\ \E i \in 1..Len(run.log) : run.log[i] = <<"info", <<"Cleaning", "dist">>>>
  /\ \E i \in 1..Len(run.log) :
        run.log[i] = <<"info", <<"Cleaning previous frontend build">>>>
  /\ Len(run.calls) = 1 /\ run.calls[1].out = "nonzero"

====
